---------------------------- MODULE Spec2Model ----------------------------
(***************************************************************************)
(* Model of the bibliometrics pipeline: clean_data.py (the Cleaner) and    *)
(* run_regression.py (the Fitter).  The two stages are separate processes  *)
(* coupled only by the file at CLEAN_OUTPUT_PATH = CLEAN_INPUT_PATH.       *)
(*                                                                         *)
(* Values.  A cell of a dataframe is a record [k, v]:                      *)
(*   [k |-> "str", v |-> text]   a string, text a sequence of characters   *)
(*   [k |-> "num", v |-> n]      a finite number (integers only here)      *)
(*   [k |-> "inf", v |-> +-1]    float +-infinity                          *)
(*   [k |-> "nan", v |-> 0]      NaN, pandas' null                         *)
(* Rationals (the fit's results) are [k |-> "frac", n |-> num, d |-> den]. *)
(***************************************************************************)
EXTENDS Integers, Sequences, FiniteSets, TLC

VARIABLES
    rawFile,        \* the file at RAW_INPUT_PATH
    cleanFile,      \* the file at CLEAN_OUTPUT_PATH / CLEAN_INPUT_PATH
    cpc,            \* clean_data.main: position in the function
    cdf,            \* clean_data.main: the dataframe held in memory
    cerr,           \* clean_data.main: the exception that ended it
    fpc,            \* run_regression.main: position in the function
    fdf,            \* run_regression.main: researcher_dataframe
    fig,            \* run_regression.main: the figure being built
    fit,            \* run_regression.main: linear_model and r2_value
    scatterPlot,    \* the file at SCATTER_PLOT_PATH
    regressionPlot, \* the file at REGRESSION_PLOT_PATH
    report,         \* the file at SUMMARY_REPORT_PATH
    ferr,           \* run_regression.main: the exception that ended it
    call            \* a single function under test: its argument and result

vars == <<rawFile, cleanFile, cpc, cdf, cerr, fpc, fdf, fig, fit,
          scatterPlot, regressionPlot, report, ferr, call>>

cleanerVars == <<rawFile, cpc, cdf, cerr>>
fitterVars == <<fpc, fdf, fig, fit, scatterPlot, regressionPlot, report, ferr>>

-----------------------------------------------------------------------------
(* Bounds of the model *)

MaxCellLen == 3
MaxRows == 2
MaxFitRows == 2
MaxVal == 2
MaxTopLen == 5
MaxPts == 5
MaxX == 5

-----------------------------------------------------------------------------
(* Values *)

NaN == [k |-> "nan", v |-> 0]
PosInf == [k |-> "inf", v |-> 1]
NegInf == [k |-> "inf", v |-> -1]
Num(n) == [k |-> "num", v |-> n]
Str(t) == [k |-> "str", v |-> t]

isna(x) == x.k = "nan"
IsFinite(x) == x.k = "num"

Absent == [k |-> "absent"]
NoErr == [k |-> "none"]
Idle == [k |-> "idle"]

SeqsUpTo(S, n) == UNION {[1..m -> S] : m \in 0..n}

Abs(n) == IF n < 0 THEN -n ELSE n

RECURSIVE GCD(_, _)
GCD(a, b) == IF b = 0 THEN Abs(a) ELSE GCD(b, a % b)

-----------------------------------------------------------------------------
(* clean_data.py: numeric coercion of one cell (lines 33-40) *)

Digits == {"0", "1", "2", "3", "4", "5", "6", "7", "8", "9"}

DigitVal(c) ==
    CASE c = "0" -> 0 [] c = "1" -> 1 [] c = "2" -> 2 [] c = "3" -> 3
      [] c = "4" -> 4 [] c = "5" -> 5 [] c = "6" -> 6 [] c = "7" -> 7
      [] c = "8" -> 8 [] c = "9" -> 9

\* .astype(str): a string stays as it is, a null is rendered "nan",
\* a number is rendered in decimal.
RECURSIVE Render(_)
Render(n) ==
    IF n < 0 THEN <<"-">> \o Render(-n)
    ELSE IF n < 10 THEN <<CHOOSE c \in Digits : DigitVal(c) = n>>
    ELSE Render(n \div 10) \o <<CHOOSE c \in Digits : DigitVal(c) = n % 10>>

astype_str(x) ==
    CASE x.k = "str" -> x.v
      [] x.k = "nan" -> <<"n", "a", "n">>
      [] x.k = "inf" -> IF x.v > 0 THEN <<"i", "n", "f">> ELSE <<"-", "i", "n", "f">>
      [] x.k = "num" -> Render(x.v)

\* .str.replace("%", "", regex=False) removes every occurrence,
\* scanning the text left to right.  The variant removes a trailing one only.
str_replace_trailing(t) ==
    IF t # <<>> /\ t[Len(t)] = "%" THEN SubSeq(t, 1, Len(t) - 1) ELSE t

RECURSIVE str_replace_pct(_)
str_replace_pct(t) ==
    IF t = <<>> THEN <<>>
    ELSE IF Head(t) = "%" THEN str_replace_pct(Tail(t))
    ELSE <<Head(t)>> \o str_replace_pct(Tail(t))

AllDigits(t) == t # <<>> /\ \A i \in 1..Len(t) : t[i] \in Digits

RECURSIVE DigitsValue(_)
DigitsValue(t) ==
    IF t = <<>> THEN 0
    ELSE 10 * DigitsValue(SubSeq(t, 1, Len(t) - 1)) + DigitVal(t[Len(t)])

\* pd.to_numeric(..., errors="coerce") on one string: an optionally signed
\* run of digits is that integer, "inf"/"-inf" the infinities, anything else
\* (the empty string and "nan" included) NaN.  No exception is raised.
to_numeric(t) ==
    IF AllDigits(t) THEN Num(DigitsValue(t))
    ELSE IF t # <<>> /\ Head(t) = "-" /\ AllDigits(Tail(t)) THEN Num(-DigitsValue(Tail(t)))
    ELSE IF t = <<"i", "n", "f">> THEN PosInf
    ELSE IF t = <<"-", "i", "n", "f">> THEN NegInf
    ELSE NaN

Coerce(x) == to_numeric(str_replace_pct(astype_str(x)))


-----------------------------------------------------------------------------
(* CSV files and dataframes.                                               *)
(* A file is Absent, [k |-> "empty"] (no header line to parse) or          *)
(* [k |-> "csv", header, rows]: header a sequence of names, rows a         *)
(* sequence of lines, a line a sequence of texts, one per column.          *)
(* A name is a sequence of pieces; the piece " " is whitespace.            *)
(* A dataframe is [columns, rows], a row a sequence of cells.              *)

EmptyFile == [k |-> "empty"]
CsvFile(h, r) == [k |-> "csv", header |-> h, rows |-> r]

IsNumericText(t) == t = <<>> \/ to_numeric(t) # NaN

\* pd.read_csv: an empty field is NaN; a column whose filled fields all
\* parse as numbers holds those numbers, any other column holds strings.
read_csv_cell(file, i, j) ==
    LET t == file.rows[i][j]
        numericColumn == \A r \in 1..Len(file.rows) : IsNumericText(file.rows[r][j])
    IN  IF t = <<>> THEN NaN
        ELSE IF numericColumn THEN to_numeric(t)
        ELSE Str(t)

read_csv(file) ==
    [columns |-> file.header,
     rows |-> [i \in 1..Len(file.rows) |->
                 [j \in 1..Len(file.header) |-> read_csv_cell(file, i, j)]]]

\* DataFrame.to_csv(path, index=False): the header line, then one line per
\* row; a null is written as an empty field.
to_csv_cell(x) == IF isna(x) THEN <<>> ELSE astype_str(x)

to_csv(df) ==
    CsvFile(df.columns,
            [i \in 1..Len(df.rows) |->
               [j \in 1..Len(df.columns) |-> to_csv_cell(df.rows[i][j])]])

HasColumn(df, name) == \E j \in 1..Len(df.columns) : df.columns[j] = name
ColumnIndex(df, name) == CHOOSE j \in 1..Len(df.columns) : df.columns[j] = name
Cell(df, i, name) == df.rows[i][ColumnIndex(df, name)]

-----------------------------------------------------------------------------
(* clean_data.py *)

researcher_name == <<"researcher_name">>
document_count == <<"document_count">>
total_citations == <<"total_citations">>
cnci == <<"cnci">>
h_index == <<"h_index">>
pct_open_access == <<"pct_open_access">>

\* c.strip() (line 16)
RECURSIVE lstrip(_)
lstrip(name) ==
    IF name # <<>> /\ Head(name) = " " THEN lstrip(Tail(name)) ELSE name

RECURSIVE rstrip(_)
rstrip(name) ==
    IF name # <<>> /\ name[Len(name)] = " "
    THEN rstrip(SubSeq(name, 1, Len(name) - 1))
    ELSE name

strip(name) == rstrip(lstrip(name))

\* column_mapping and DataFrame.rename (lines 19-27): a name that is not a
\* key of the mapping is kept.
column_mapping(name) ==
    CASE name = <<"Name">> -> researcher_name
      [] name = <<"Web of Science Documents">> -> document_count
      [] name = <<"Times Cited">> -> total_citations
      [] name = <<"Category Normalized Citation Impact">> -> cnci
      [] name = <<"H-Index">> -> h_index
      [] name = <<"% All Open Access Documents">> -> pct_open_access
      [] OTHER -> name

numeric_columns == {document_count, total_citations, cnci, h_index, pct_open_access}

required_subset == {document_count, total_citations}

\* lines 16-27
Rename(df) ==
    [df EXCEPT !.columns = [j \in 1..Len(df.columns) |->
                               column_mapping(strip(df.columns[j]))]]

\* lines 30-40: every cell of every numeric column that is present
CoerceColumns(df) ==
    [df EXCEPT !.rows = [i \in 1..Len(df.rows) |->
        [j \in 1..Len(df.columns) |->
            IF df.columns[j] \in numeric_columns
            THEN Coerce(df.rows[i][j])
            ELSE df.rows[i][j]]]]

\* dropna(subset=[...]) (line 43): keeps, in order, the rows with no null in
\* the subset's columns.  The variants: a dropna() over all columns, and
\* a dropna that keeps a row when any subset column is filled (how="all").
KeepRowAnyColumn(df, i) == \A j \in 1..Len(df.columns) : ~isna(df.rows[i][j])

KeepRowHowAll(df, i) == \E c \in required_subset : ~isna(Cell(df, i, c))

KeepRow(df, i) == \A c \in required_subset : ~isna(Cell(df, i, c))

RECURSIVE DropRows(_, _)
DropRows(df, i) ==
    IF i > Len(df.rows) THEN <<>>
    ELSE (IF KeepRow(df, i) THEN <<df.rows[i]>> ELSE <<>>) \o DropRows(df, i + 1)

dropna(df) == [df EXCEPT !.rows = DropRows(df, 1)]

MissingSubset(df) == {c \in required_subset : ~HasColumn(df, c)}

\* A variant of the load step that opens the output for writing before it
\* has read the input.
CleanerLoadTruncating ==
    /\ cpc = "load"
    /\ cleanFile' = EmptyFile
    /\ IF rawFile \in {Absent, EmptyFile}
       THEN cpc' = "failed" /\ cerr' = [k |-> "FileNotFoundError"] /\ cdf' = cdf
       ELSE cpc' = "rename" /\ cdf' = read_csv(rawFile) /\ cerr' = cerr
    /\ UNCHANGED <<rawFile, fitterVars, call>>

\* line 13
CleanerLoad ==
    /\ cpc = "load"
    /\ IF rawFile = Absent
       THEN /\ cpc' = "failed"
            /\ cerr' = [k |-> "FileNotFoundError"]
            /\ cdf' = cdf
       ELSE IF rawFile = EmptyFile
       THEN /\ cpc' = "failed"
            /\ cerr' = [k |-> "EmptyDataError"]
            /\ cdf' = cdf
       ELSE /\ cpc' = "rename"
            /\ cdf' = read_csv(rawFile)
            /\ cerr' = cerr
    /\ UNCHANGED <<rawFile, cleanFile, fitterVars, call>>

\* lines 16-27
CleanerRename ==
    /\ cpc = "rename"
    /\ cdf' = Rename(cdf)
    /\ cpc' = "coerce"
    /\ UNCHANGED <<rawFile, cleanFile, cerr, fitterVars, call>>

\* lines 30-40
CleanerCoerce ==
    /\ cpc = "coerce"
    /\ cdf' = CoerceColumns(cdf)
    /\ cpc' = "dropna"
    /\ UNCHANGED <<rawFile, cleanFile, cerr, fitterVars, call>>

\* line 43: a subset column that is absent raises KeyError
CleanerDropna ==
    /\ cpc = "dropna"
    /\ IF MissingSubset(cdf) # {}
       THEN /\ cpc' = "failed"
            /\ cerr' = [k |-> "KeyError", missing |-> MissingSubset(cdf)]
            /\ cdf' = cdf
       ELSE /\ cpc' = "save"
            /\ cdf' = dropna(cdf)
            /\ cerr' = cerr
    /\ UNCHANGED <<rawFile, cleanFile, fitterVars, call>>

\* lines 46-47
CleanerSave ==
    /\ cpc = "save"
    /\ cleanFile' = to_csv(cdf)
    /\ cpc' = "done"
    /\ UNCHANGED <<rawFile, cdf, cerr, fitterVars, call>>

-----------------------------------------------------------------------------
(* The Cleaner's inputs and specification *)

\* Header lines of the raw file: padded source names, a table without the
\* optional column, and tables whose required columns are missing (absent,
\* or spelled so that the mapping does not know them).
RawHeaders ==
    { << <<" ", "Web of Science Documents">>, <<"Times Cited", " ">>,
         <<"% All Open Access Documents">> >>,
      << <<"Web of Science Documents">>, <<" ", "Times Cited", " ">> >>,
      << <<"Name">>, <<"Web of Science Documents">> >>,
      << <<"web of science documents">>, <<"Times Cited">> >>,
      << <<"Times Cited">> >> }

\* Texts of raw fields: a percentage, a text that is no number, a negative
\* number.
CellSamples == {<<"1", "2", "%">>, <<"x">>, <<"-", "3">>}

OptionalCellSamples == {<<"1", "5", "0", "%">>, <<"x">>}

SamplesFor(name) ==
    IF column_mapping(strip(name)) = pct_open_access
    THEN OptionalCellSamples
    ELSE CellSamples

RawLines(h) ==
    {line : line \in {l \in [1..Len(h) -> CellSamples \cup OptionalCellSamples] :
                        \A j \in 1..Len(h) : l[j] \in SamplesFor(h[j])}}

RawTables(n) == UNION {{CsvFile(h, r) : r \in SeqsUpTo(RawLines(h), n)} : h \in RawHeaders}

\* Tables that put every text of up to MaxCellLen characters into a
\* required column, alone and above a second field of the same column.
Chars == {"1", "%", "x", "-", "i", "n", "f"}

Texts(n) == SeqsUpTo(Chars, n)

ProbeHeader == << <<"Web of Science Documents">>, <<"Times Cited">> >>

ProbeTables(n) ==
    {CsvFile(ProbeHeader, << <<t, <<"7">>>> >>) : t \in Texts(n)}
    \cup {CsvFile(ProbeHeader, << <<t, <<"7">>>>, <<s, <<"7">>>> >>) :
            t \in Texts(n), s \in CellSamples}

\* What an earlier run of the Cleaner left at CLEAN_OUTPUT_PATH.
PriorClean == CsvFile(<<document_count, total_citations>>, << <<<<"9">>, <<"9">>>> >>)

NoFrame == [columns |-> <<>>, rows |-> <<>>]
NoFig == [k |-> "none"]
NoFit == [k |-> "none"]

FitterIdle ==
    /\ fpc = "idle"
    /\ fdf = NoFrame
    /\ fig = NoFig
    /\ fit = NoFit
    /\ scatterPlot = Absent
    /\ regressionPlot = Absent
    /\ report = Absent
    /\ ferr = NoErr

CleanerIdle ==
    /\ rawFile = Absent
    /\ cpc = "idle"
    /\ cdf = NoFrame
    /\ cerr = NoErr

InitCleaner ==
    /\ rawFile \in {Absent, EmptyFile} \cup RawTables(MaxRows) \cup ProbeTables(MaxCellLen)
    /\ cleanFile \in {Absent, PriorClean}
    /\ cpc = "load"
    /\ cdf = NoFrame
    /\ cerr = NoErr
    /\ FitterIdle
    /\ call = Idle

NextCleaner ==
    \/ CleanerLoad
    \/ CleanerRename
    \/ CleanerCoerce
    \/ CleanerDropna
    \/ CleanerSave

SpecCleaner == InitCleaner /\ [][NextCleaner]_vars

-----------------------------------------------------------------------------
(* Properties of the Cleaner *)

NotPct(c) == c # "%"

\* The number a raw field stands for: its text without any "%", parsed.
ParseWithoutPct(t) == to_numeric(SelectSeq(t, NotPct))

RawName(j) == column_mapping(strip(rawFile.header[j]))

RawIndexOf(name) == CHOOSE j \in 1..Len(rawFile.header) : RawName(j) = name

RawHasRequired == \A c \in required_subset : \E j \in 1..Len(rawFile.header) : RawName(j) = c

\* The value the Cleaner is to hold for raw field (i, j).
Expected(i, j) ==
    IF RawName(j) \in numeric_columns
    THEN ParseWithoutPct(rawFile.rows[i][j])
    ELSE read_csv_cell(rawFile, i, j)

Survives(i) ==
    \A c \in required_subset : ~isna(ParseWithoutPct(rawFile.rows[i][RawIndexOf(c)]))

RECURSIVE SurvivorsFrom(_)
SurvivorsFrom(i) ==
    IF i > Len(rawFile.rows) THEN <<>>
    ELSE (IF Survives(i) THEN <<i>> ELSE <<>>) \o SurvivorsFrom(i + 1)

\* The text to_csv writes for a value.
Written(x) ==
    CASE x.k = "nan" -> <<>>
      [] x.k = "str" -> x.v
      [] x.k = "inf" -> IF x.v > 0 THEN <<"i", "n", "f">> ELSE <<"-", "i", "n", "f">>
      [] x.k = "num" -> Render(x.v)

\* C1: the dataset the Cleaner writes is exactly the subsequence of the input
\* rows whose document_count and total_citations are both non-null after
\* coercion: none of its rows has an empty required field, every such input
\* row is written whatever its optional fields hold, and the rows keep
\* their order.
C1_CleanedIsSurvivingSubsequence ==
    cpc = "done" =>
        LET kept == SurvivorsFrom(1)
            out == cleanFile.rows
        IN  /\ Len(out) = Len(kept)
            /\ \A k \in 1..Len(out) :
                 /\ \A j \in 1..Len(rawFile.header) : out[k][j] = Written(Expected(kept[k], j))
                 /\ \A c \in required_subset : out[k][RawIndexOf(c)] # <<>>
            /\ \A k \in 1..(Len(kept) - 1) : kept[k] < kept[k + 1]

\* A run that dropped the first of two rows and wrote the second, whose
\* optional field is null.
C1_Witness ==
    /\ cpc = "done"
    /\ Len(rawFile.rows) = 2
    /\ Len(rawFile.header) = 3
    /\ ~Survives(1)
    /\ Len(cleanFile.rows) = 1
    /\ cleanFile.rows[1][3] = <<>>

\* C6: coercion works cell by cell and never raises: after the coercion step
\* every cell of a numeric column holds the numeric parse of its own raw text
\* with every "%" removed (NaN when that is no number), every other cell is
\* untouched, the only errors a run ends with are those of loading and of
\* the missing-column check, and a row is missing from the output only if
\* its document_count or total_citations cell is no number.
C6_CoercionPerCell ==
    /\ cpc = "dropna" =>
         \A i \in 1..Len(cdf.rows) : \A j \in 1..Len(cdf.columns) :
            cdf.rows[i][j] = Expected(i, j)
    /\ cpc = "failed" => cerr.k \in {"FileNotFoundError", "EmptyDataError", "KeyError"}
    /\ cpc = "done" =>
         Len(cleanFile.rows) = Cardinality({i \in 1..Len(rawFile.rows) : Survives(i)})

\* Two fields of one column, "%1" above "12%", both coerced: to 1 and to 12.
C6_Witness ==
    /\ cpc = "dropna"
    /\ rawFile.k = "csv"
    /\ Len(rawFile.rows) = 2
    /\ rawFile.rows[1][1] = <<"%", "1">>
    /\ rawFile.rows[2][1] = <<"1", "2", "%">>
    /\ cdf.rows[1][1] = Num(1)
    /\ cdf.rows[2][1] = Num(12)

\* C7: a failed run of the Cleaner leaves the output file as it was: the
\* file changes only in the step that ends the run successfully, a run whose
\* input is missing or has no header, or lacks a required column after
\* renaming, never gets to that step, and it ends with an error raised.
C7_FailedCleanerLeavesOutput ==
    [][ /\ (cpc' # "done" => cleanFile' = cleanFile)
        /\ (cpc' = "done" => cpc \in {"save", "done"})
        /\ (cpc' = "failed" => cerr' # NoErr)
        /\ (cpc' \in {"save", "done"} => rawFile.k = "csv" /\ RawHasRequired) ]_vars

\* A run that failed on a missing required column, the earlier output intact.
C7_Witness ==
    /\ cpc = "failed"
    /\ cerr.k = "KeyError"
    /\ cerr.missing = {total_citations}
    /\ cleanFile = PriorClean

NonNegative(x) == (x.k = "inf" /\ x.v > 0) \/ (x.k = "num" /\ x.v >= 0)

WrittenValue(k, name) == to_numeric(cleanFile.rows[k][RawIndexOf(name)])

\* C8 as stated: every written record has document_count and
\* total_citations >= 0 and pct_open_access null or within [0, 100].
C8_OutputWithinRanges ==
    cpc = "done" =>
        \A k \in 1..Len(cleanFile.rows) :
            /\ \A c \in required_subset : NonNegative(WrittenValue(k, c))
            /\ \A j \in 1..Len(rawFile.header) :
                 RawName(j) = pct_open_access =>
                    LET x == to_numeric(cleanFile.rows[k][j])
                    IN  isna(x) \/ (x.k = "num" /\ x.v >= 0 /\ x.v <= 100)

\* C8 as amended: every written record has numbers, written without "%", in
\* document_count and total_citations, and a number or nothing in every
\* other numeric field; no range is imposed on them.
C8_OutputNumeric ==
    cpc = "done" =>
        \A k \in 1..Len(cleanFile.rows) : \A j \in 1..Len(rawFile.header) :
            RawName(j) \in numeric_columns =>
                LET t == cleanFile.rows[k][j]
                IN  /\ \A p \in 1..Len(t) : t[p] # "%"
                    /\ (t = <<>> => RawName(j) \notin required_subset)
                    /\ (t # <<>> => ~isna(to_numeric(t)))

\* A written record with a negative document_count and 150 in pct_open_access.
C8_Witness ==
    /\ cpc = "done"
    /\ Len(rawFile.header) = 3
    /\ \E k \in 1..Len(cleanFile.rows) :
         /\ cleanFile.rows[k][1] = <<"-", "3">>
         /\ cleanFile.rows[k][3] = <<"1", "5", "0">>

-----------------------------------------------------------------------------
(* run_regression.py: the pure parts *)

\* Order of float values: -inf < every number < inf.
Less(a, b) ==
    CASE a.k = "num" /\ b.k = "num" -> a.v < b.v
      [] a.k = "inf" /\ b.k = "num" -> a.v < 0
      [] a.k = "num" /\ b.k = "inf" -> b.v > 0
      [] a.k = "inf" /\ b.k = "inf" -> a.v < b.v
      [] OTHER -> FALSE

ColumnValues(df, name) == [i \in 1..Len(df.rows) |-> Cell(df, i, name)]

\* DataFrame.nlargest(n, column) with keep="first": the row labels in a
\* stable descending order of the column, cut to the first n.  A row is put
\* behind every row already placed whose value is not smaller; the variant
\* puts it before the rows of equal value (what keep="last" does).
RECURSIVE InsertBeforeEqual(_, _, _)
InsertBeforeEqual(placed, i, vals) ==
    IF placed = <<>> THEN <<i>>
    ELSE IF Less(vals[i], vals[Head(placed)])
         THEN <<Head(placed)>> \o InsertBeforeEqual(Tail(placed), i, vals)
         ELSE <<i>> \o placed

RECURSIVE InsertStable(_, _, _)
InsertStable(placed, i, vals) ==
    IF placed = <<>> THEN <<i>>
    ELSE IF Less(vals[Head(placed)], vals[i])
         THEN <<i>> \o placed
         ELSE <<Head(placed)>> \o InsertStable(Tail(placed), i, vals)

RECURSIVE SortDescending(_, _)
SortDescending(vals, upto) ==
    IF upto = 0 THEN <<>>
    ELSE InsertStable(SortDescending(vals, upto - 1), upto, vals)

Min(a, b) == IF a < b THEN a ELSE b

nlargest(vals, n) == SubSeq(SortDescending(vals, Len(vals)), 1, Min(n, Len(vals)))

TopN == 3

\* _highlight_top3 (lines 32-68): nothing for an empty frame; else the top
\* rows' points, and their names when the frame has the name column.
top3(df) == nlargest(ColumnValues(df, total_citations), Min(TopN, Len(df.rows)))

Point(df, i) == <<Cell(df, i, document_count), Cell(df, i, total_citations)>>

_highlight_top3(ax, df) ==
    IF Len(df.rows) = 0 THEN ax
    ELSE LET sel == top3(df)
         IN  [ax EXCEPT
                !.highlight = [p \in 1..Len(sel) |-> Point(df, sel[p])],
                !.labels = IF HasColumn(df, researcher_name)
                           THEN [p \in 1..Len(sel) |->
                                   astype_str(Cell(df, sel[p], researcher_name))]
                           ELSE <<>>]

\* _set_integer_xticks (lines 21-29): np.nanmin / np.nanmax raise ValueError
\* on an empty series; int() raises OverflowError on an infinity and
\* ValueError on NaN (a series of nulls only).
NonNull(vals) == {i \in 1..Len(vals) : ~isna(vals[i])}

nanmin(vals) ==
    IF NonNull(vals) = {} THEN NaN
    ELSE vals[CHOOSE i \in NonNull(vals) : \A j \in NonNull(vals) : ~Less(vals[j], vals[i])]

nanmax(vals) ==
    IF NonNull(vals) = {} THEN NaN
    ELSE vals[CHOOSE i \in NonNull(vals) : \A j \in NonNull(vals) : ~Less(vals[i], vals[j])]

XticksError(vals) ==
    IF Len(vals) = 0 THEN [k |-> "ValueError", what |-> "zero-size array to reduction operation"]
    ELSE IF nanmin(vals).k = "nan" THEN [k |-> "ValueError", what |-> "cannot convert float NaN to integer"]
    ELSE IF nanmin(vals).k = "inf" \/ nanmax(vals).k = "inf"
         THEN [k |-> "OverflowError", what |-> "cannot convert float infinity to integer"]
    ELSE NoErr

_set_integer_xticks(ax, vals) == [ax EXCEPT !.xticks = <<nanmin(vals).v, nanmax(vals).v>>]

\* Rationals, kept in lowest terms with a positive denominator.
Q(n, d) ==
    LET g == GCD(Abs(n), Abs(d))
        sgn == IF d < 0 THEN -1 ELSE 1
    IN  [k |-> "frac", n |-> sgn * (n \div g), d |-> sgn * (d \div g)]

QInt(n) == [k |-> "frac", n |-> n, d |-> 1]
QAdd(a, b) == Q(a.n * b.d + b.n * a.d, a.d * b.d)
QSub(a, b) == Q(a.n * b.d - b.n * a.d, a.d * b.d)
QMul(a, b) == Q(a.n * b.n, a.d * b.d)
QDiv(a, b) == Q(a.n * b.d, a.d * b.n)

RECURSIVE QSum(_)
QSum(s) == IF s = <<>> THEN QInt(0) ELSE QAdd(Head(s), QSum(Tail(s)))

QMean(s) == QDiv(QSum(s), QInt(Len(s)))

\* LinearRegression().fit(X, y) with one predictor (lines 125-126): the
\* least-squares line through the centred data; the minimum-norm solution,
\* slope 0, when the predictor does not vary.  The variant fits through
\* the origin (fit_intercept=False).
FitThroughOrigin(xs, ys) ==
    LET sxx == QSum([i \in 1..Len(xs) |-> QInt(xs[i] * xs[i])])
        sxy == QSum([i \in 1..Len(xs) |-> QInt(xs[i] * ys[i])])
    IN  [k |-> "model", intercept_ |-> QInt(0),
         coef_ |-> IF sxx.n = 0 THEN QInt(0) ELSE QDiv(sxy, sxx)]

LinearRegression_fit(xs, ys) ==
    LET xm == QMean([i \in 1..Len(xs) |-> QInt(xs[i])])
        ym == QMean([i \in 1..Len(ys) |-> QInt(ys[i])])
        xc == [i \in 1..Len(xs) |-> QSub(QInt(xs[i]), xm)]
        yc == [i \in 1..Len(ys) |-> QSub(QInt(ys[i]), ym)]
        sxx == QSum([i \in 1..Len(xs) |-> QMul(xc[i], xc[i])])
        sxy == QSum([i \in 1..Len(xs) |-> QMul(xc[i], yc[i])])
        coef == IF sxx.n = 0 THEN QInt(0) ELSE QDiv(sxy, sxx)
    IN  [k |-> "model", intercept_ |-> QSub(ym, QMul(coef, xm)), coef_ |-> coef]

\* linear_model.predict (line 129)
predict(model, xs) ==
    [i \in 1..Len(xs) |-> QAdd(model.intercept_, QMul(model.coef_, QInt(xs[i])))]

\* sklearn.metrics.r2_score (line 130): NaN for fewer than two samples;
\* 1 - SSres/SStot; when SStot is 0, 1.0 if SSres is 0 too and 0.0 if not.
r2_score(ys, fitted) ==
    LET ym == QMean([i \in 1..Len(ys) |-> QInt(ys[i])])
        res == [i \in 1..Len(ys) |-> QSub(QInt(ys[i]), fitted[i])]
        dev == [i \in 1..Len(ys) |-> QSub(QInt(ys[i]), ym)]
        numerator == QSum([i \in 1..Len(ys) |-> QMul(res[i], res[i])])
        denominator == QSum([i \in 1..Len(ys) |-> QMul(dev[i], dev[i])])
    IN  IF Len(ys) < 2 THEN NaN
        ELSE IF denominator.n # 0 THEN QSub(QInt(1), QDiv(numerator, denominator))
        ELSE IF numerator.n = 0 THEN QInt(1)
        ELSE QInt(0)

\* f"{value:.6f}" (lines 172-178): the value rounded to millionths, written
\* in fixed notation; a NaN is written "nan".
Million == 1000000

RoundDiv(n, d) == (2 * n + d) \div (2 * d)

format_6f(x) ==
    IF x.k = "nan" THEN [k |-> "text", v |-> "nan"]
    ELSE [k |-> "fixed", v |-> RoundDiv(x.n * Million, x.d)]

-----------------------------------------------------------------------------
(* run_regression.py: main *)

LinspaceCount == 100

required_columns == {document_count, total_citations}

\* A variant of the check that looks for document_count only.
MissingDocumentCount(df) == {c \in {document_count} : ~HasColumn(df, c)}

MissingColumns(df) == {c \in required_columns : ~HasColumn(df, c)}

Points(df) == [i \in 1..Len(df.rows) |-> Point(df, i)]

\* plt.subplots() and ax.scatter of all records (lines 90-96, 133-141)
subplots(df) ==
    [k |-> "fig", points |-> Points(df), highlight |-> <<>>, labels |-> <<>>,
     xticks |-> <<>>, line |-> <<>>]

\* fig.savefig(path): the file a run of the Fitter writes
SavedBy(run, content) == [k |-> "file", by |-> run, content |-> content]

NonFinite(df) ==
    \E i \in 1..Len(df.rows) : \E c \in required_columns : ~IsFinite(Cell(df, i, c))

IntValues(df, name) == [i \in 1..Len(df.rows) |-> Cell(df, i, name).v]

\* lines 125-130: the model fitted on all records, and its R-squared
FitAndScore(xs, ys) ==
    LET linear_model == LinearRegression_fit(xs, ys)
    IN  [k |-> "fit", model |-> linear_model,
         r2_value |-> r2_score(ys, predict(linear_model, xs))]

\* line 81
FitterLoad ==
    /\ fpc = "load"
    /\ IF cleanFile = Absent
       THEN /\ fpc' = "failed"
            /\ ferr' = [k |-> "FileNotFoundError"]
            /\ fdf' = fdf
       ELSE IF cleanFile = EmptyFile
       THEN /\ fpc' = "failed"
            /\ ferr' = [k |-> "EmptyDataError"]
            /\ fdf' = fdf
       ELSE /\ fpc' = "check"
            /\ fdf' = read_csv(cleanFile)
            /\ ferr' = ferr
    /\ UNCHANGED <<cleanFile, cleanerVars, fig, fit, scatterPlot, regressionPlot, report, call>>

\* lines 84-87
FitterCheck ==
    /\ fpc = "check"
    /\ IF MissingColumns(fdf) # {}
       THEN /\ fpc' = "failed"
            /\ ferr' = [k |-> "ValueError", what |-> "Missing columns in input",
                        missing |-> MissingColumns(fdf)]
       ELSE /\ fpc' = "scatter"
            /\ ferr' = ferr
    /\ UNCHANGED <<cleanFile, cleanerVars, fdf, fig, fit, scatterPlot, regressionPlot, report, call>>

\* lines 90-113: the scatter figure, built in memory
FitterScatter ==
    /\ fpc = "scatter"
    /\ LET ax == _highlight_top3(subplots(fdf), fdf)
           xs == ColumnValues(fdf, document_count)
       IN  IF XticksError(xs) # NoErr
           THEN /\ fpc' = "failed"
                /\ ferr' = XticksError(xs)
                /\ fig' = ax
           ELSE /\ fpc' = "save_scatter"
                /\ ferr' = ferr
                /\ fig' = _set_integer_xticks(ax, xs)
    /\ UNCHANGED <<cleanFile, cleanerVars, fdf, fit, scatterPlot, regressionPlot, report, call>>

\* lines 116-117
FitterSaveScatter ==
    /\ fpc = "save_scatter"
    /\ scatterPlot' = SavedBy("this run", fig)
    /\ fig' = NoFig
    /\ fpc' = "fit"
    /\ UNCHANGED <<cleanFile, cleanerVars, fdf, fit, regressionPlot, report, ferr, call>>

\* lines 121-130: fit() validates its input and raises ValueError on a NaN
\* or an infinity
FitterFit ==
    /\ fpc = "fit"
    /\ IF NonFinite(fdf)
       THEN /\ fpc' = "failed"
            /\ ferr' = [k |-> "ValueError", what |-> "Input contains NaN or infinity"]
            /\ fit' = fit
       ELSE /\ fpc' = "regression"
            /\ ferr' = ferr
            /\ fit' = FitAndScore(IntValues(fdf, document_count),
                                  IntValues(fdf, total_citations))
    /\ UNCHANGED <<cleanFile, cleanerVars, fdf, fig, scatterPlot, regressionPlot, report, call>>

\* lines 133-163: the regression figure, built in memory
FitterRegression ==
    /\ fpc = "regression"
    /\ LET xs == ColumnValues(fdf, document_count)
           x_min == nanmin(xs).v
           x_max == nanmax(xs).v
           y_grid == predict(fit.model, <<x_min, x_max>>)
           ax == [subplots(fdf) EXCEPT
                    !.line = [from |-> x_min, to |-> x_max, samples |-> LinspaceCount,
                              y_from |-> y_grid[1], y_to |-> y_grid[2]]]
       IN  fig' = _set_integer_xticks(_highlight_top3(ax, fdf), xs)
    /\ fpc' = "save_regression"
    /\ UNCHANGED <<cleanFile, cleanerVars, fdf, fit, scatterPlot, regressionPlot, report, ferr, call>>

\* lines 166-167
FitterSaveRegression ==
    /\ fpc = "save_regression"
    /\ regressionPlot' = SavedBy("this run", fig)
    /\ fig' = NoFig
    /\ fpc' = "report"
    /\ UNCHANGED <<cleanFile, cleanerVars, fdf, fit, scatterPlot, report, ferr, call>>

\* lines 170-179
FitterReport ==
    /\ fpc = "report"
    /\ report' = SavedBy("this run",
                         [label |-> "Linear Regression: total_citations ~ document_count",
                          intercept |-> format_6f(fit.model.intercept_),
                          coefficient |-> format_6f(fit.model.coef_),
                          r_squared |-> format_6f(fit.r2_value),
                          equation |-> <<format_6f(fit.model.intercept_),
                                         format_6f(fit.model.coef_)>>])
    /\ fpc' = "done"
    /\ UNCHANGED <<cleanFile, cleanerVars, fdf, fig, fit, scatterPlot, regressionPlot, ferr, call>>

-----------------------------------------------------------------------------
(* The Fitter's inputs and specification *)

FitHeaders ==
    { <<researcher_name, document_count, total_citations>>,
      <<document_count, total_citations>>,
      <<researcher_name, total_citations>>,
      <<document_count>> }

\* What the Cleaner writes into a required column: a number or an infinity.
FitTexts == {Render(n) : n \in 1..MaxVal} \cup {<<"i", "n", "f">>}

FitLines(h) ==
    {line : line \in {l \in [1..Len(h) -> FitTexts \cup {<<"A">>}] :
                        \A j \in 1..Len(h) : (l[j] = <<"A">>) <=> (h[j] = researcher_name)}}

FitTables(n) == UNION {{CsvFile(h, r) : r \in SeqsUpTo(FitLines(h), n)} : h \in FitHeaders}

\* What an earlier, successful run of the Fitter left.
PriorFile == [k |-> "file", by |-> "an earlier run", content |-> <<>>]

InitFitter ==
    /\ cleanFile \in {Absent, EmptyFile} \cup FitTables(MaxFitRows)
    /\ CleanerIdle
    /\ fpc = "load"
    /\ fdf = NoFrame
    /\ fig = NoFig
    /\ fit = NoFit
    /\ \E prior \in {Absent, PriorFile} :
         /\ scatterPlot = prior
         /\ regressionPlot = prior
         /\ report = prior
    /\ ferr = NoErr
    /\ call = Idle

NextFitter ==
    \/ FitterLoad
    \/ FitterCheck
    \/ FitterScatter
    \/ FitterSaveScatter
    \/ FitterFit
    \/ FitterRegression
    \/ FitterSaveRegression
    \/ FitterReport

SpecFitter == InitFitter /\ [][NextFitter]_vars

-----------------------------------------------------------------------------
(* Properties of the Fitter *)

Outputs == <<scatterPlot, regressionPlot, report>>

Untouched(f) == f \in {Absent, PriorFile}

CleanHas(name) == \E j \in 1..Len(cleanFile.header) : cleanFile.header[j] = name

CleanMissing == {c \in {document_count, total_citations} : ~CleanHas(c)}

\* C3: when a run of the Fitter has aborted, none of the three output files
\* has been written by it: each is what it was before the run.
C3_FailedFitterLeavesOutputs ==
    fpc = "failed" => \A p \in 1..3 : Untouched(Outputs[p])

\* C4: a dataset with both required columns and no records ends the run with
\* the EmptyDataset condition, and with no output written.
C4_EmptyDatasetReported ==
    (/\ fpc = "failed"
     /\ cleanFile.k = "csv"
     /\ CleanMissing = {}
     /\ Len(cleanFile.rows) = 0)
    => /\ ferr.k = "EmptyDataset"
       /\ \A p \in 1..3 : Untouched(Outputs[p])

\* C5: the presence of document_count and total_citations is checked right
\* after loading and before anything else: no later step is ever reached
\* with one of them absent, and the run that lacks one ends with the
\* ValueError that names what is missing, no figure built, no model fitted
\* and no output written.
C5_SchemaCheckedUpFront ==
    cleanFile.k = "csv" =>
        /\ (fpc \notin {"load", "check", "failed"} => CleanMissing = {})
        /\ (fpc = "failed" /\ CleanMissing # {}) =>
              /\ ferr.k = "ValueError"
              /\ ferr.what = "Missing columns in input"
              /\ ferr.missing = CleanMissing
              /\ fig = NoFig
              /\ fit = NoFit
              /\ \A p \in 1..3 : Untouched(Outputs[p])

\* A run over a table with records and no total_citations, ended by the check.
C5_Witness ==
    /\ fpc = "failed"
    /\ cleanFile.k = "csv"
    /\ CleanMissing = {total_citations}
    /\ Len(cleanFile.rows) > 0
    /\ scatterPlot = PriorFile

\* C10: when every record has the same total_citations, the report a run
\* writes carries a finite number for R-squared, never NaN.
C10_RSquaredFinite ==
    (/\ fpc = "done"
     /\ \A i, j \in 1..Len(fdf.rows) :
          Cell(fdf, i, total_citations) = Cell(fdf, j, total_citations))
    => report.content.r_squared.k = "fixed"

-----------------------------------------------------------------------------
(* _highlight_top3 on its own: the selection handed to the plot *)

Pending == [k |-> "pending"]

TopValues == {5, 10, 50, 100}

\* A frame whose document_count numbers the rows, so that a highlighted
\* point tells which row it is.
TopFrame(cits) ==
    [columns |-> <<document_count, total_citations>>,
     rows |-> [i \in 1..Len(cits) |-> <<Num(i), Num(cits[i])>>]]

TopInputs(n) == SeqsUpTo(TopValues, n)

InitTop3 ==
    /\ call \in {[k |-> "call", fn |-> "_highlight_top3", df |-> TopFrame(cits),
                  ret |-> Pending] : cits \in TopInputs(MaxTopLen)}
    /\ cleanFile = Absent
    /\ CleanerIdle
    /\ FitterIdle

CallHighlightTop3 ==
    /\ call.k = "call"
    /\ call.fn = "_highlight_top3"
    /\ call.ret = Pending
    /\ call' = [call EXCEPT !.ret = [k |-> "returned",
                                      ax |-> _highlight_top3(subplots(call.df), call.df)]]
    /\ UNCHANGED <<cleanFile, cleanerVars, fitterVars>>

NextTop3 == CallHighlightTop3

SpecTop3 == InitTop3 /\ [][NextTop3]_vars

\* C2: for a non-empty dataset the highlighted records are min(3, n) rows,
\* in descending total_citations with rows of equal total_citations in
\* their original order, and no row left out has more citations than a
\* row selected, or as many while standing earlier.
C2_Top3Selection ==
    (call.ret # Pending /\ Len(call.df.rows) > 0) =>
        LET sel == call.ret.ax.highlight
            n == Len(call.df.rows)
            row(p) == sel[p][1].v
            cit(i) == Cell(call.df, i, total_citations).v
        IN  /\ Len(sel) = (IF n < 3 THEN n ELSE 3)
            /\ \A p \in 1..Len(sel) : row(p) \in 1..n /\ sel[p] = Point(call.df, row(p))
            /\ \A p, q \in 1..Len(sel) :
                 p < q => \/ cit(row(p)) > cit(row(q))
                          \/ (cit(row(p)) = cit(row(q)) /\ row(p) < row(q))
            /\ \A i \in 1..n : (\A p \in 1..Len(sel) : row(p) # i) =>
                 \A p \in 1..Len(sel) :
                    \/ cit(i) < cit(row(p))
                    \/ (cit(i) = cit(row(p)) /\ row(p) < i)

\* total_citations = [10, 50, 50, 5, 100]: rows 5, 2, 3 are highlighted.
C2_Witness ==
    /\ call.k = "call"
    /\ call.fn = "_highlight_top3"
    /\ call.df = TopFrame(<<10, 50, 50, 5, 100>>)
    /\ call.ret # Pending
    /\ call.ret.ax.highlight = <<Point(call.df, 5), Point(call.df, 2), Point(call.df, 3)>>

-----------------------------------------------------------------------------
(* The fit on its own: LinearRegression and r2_score on given records *)

Intercepts == {0, 1}

Slopes == {-1, 0, 2}

\* Records on the line a + b * x, the first of them moved off it by noise.
LineData(xs, a, b, noise) ==
    [i \in 1..Len(xs) |-> a + b * xs[i] + (IF i = 1 THEN noise ELSE 0)]

Monotone(xs) ==
    \/ \A i \in 1..(Len(xs) - 1) : xs[i] <= xs[i + 1]
    \/ \A i \in 1..(Len(xs) - 1) : xs[i] >= xs[i + 1]

\* document_count of up to MaxPts records, in ascending or descending order.
FitInputs(n) == {xs \in SeqsUpTo(1..MaxX, n) : xs # <<>> /\ Monotone(xs)}

InitOLS ==
    /\ call \in {[k |-> "call", fn |-> "fit", xs |-> xs, ys |-> LineData(xs, a, b, noise),
                  ret |-> Pending] :
                    xs \in FitInputs(MaxPts),
                    a \in Intercepts, b \in Slopes, noise \in {0, 1}}
    /\ cleanFile = Absent
    /\ CleanerIdle
    /\ FitterIdle

CallFit ==
    /\ call.k = "call"
    /\ call.fn = "fit"
    /\ call.ret = Pending
    /\ call' = [call EXCEPT !.ret = FitAndScore(call.xs, call.ys)]
    /\ UNCHANGED <<cleanFile, cleanerVars, fitterVars>>

NextOLS == CallFit

SpecOLS == InitOLS /\ [][NextOLS]_vars

\* No total_citations of LineData is larger in size than this.
LargestY == 2 * MaxX + 2

OnLine(xs, ys, a, b) == \A i \in 1..Len(xs) : ys[i] = a + b * xs[i]

\* C9: fitted on records that all lie on a line a + b * x, with two
\* different x at least and b # 0, the model has intercept a, slope b and
\* R-squared 1.
C9_ExactLineRecovered ==
    call.ret # Pending =>
        \A b \in -LargestY..LargestY :
          LET a == call.ys[1] - b * call.xs[1]
          IN
            (/\ b # 0
             /\ OnLine(call.xs, call.ys, a, b)
             /\ \E i, j \in 1..Len(call.xs) : call.xs[i] # call.xs[j])
            => /\ call.ret.model.intercept_ = QInt(a)
               /\ call.ret.model.coef_ = QInt(b)
               /\ call.ret.r2_value = QInt(1)

\* document_count = [1,2,3,4,5], total_citations = [2,4,6,8,10]:
\* slope 2, intercept 0, R-squared 1.
C9_Witness ==
    /\ call.k = "call"
    /\ call.fn = "fit"
    /\ call.xs = <<1, 2, 3, 4, 5>>
    /\ call.ys = <<2, 4, 6, 8, 10>>
    /\ call.ret # Pending
    /\ call.ret.model.coef_ = QInt(2)
    /\ call.ret.model.intercept_ = QInt(0)
    /\ call.ret.r2_value = QInt(1)

=============================================================================
